---------------------------- MODULE Spec2Model ----------------------------
(***************************************************************************)
(* A model of the DBus message layer of geard's vendored dbus package      *)
(* (src/message.go): Message.IsValid, Message.EncodeTo and DecodeMessage,  *)
(* together with the byte-level wire format they produce and consume.      *)
(*                                                                         *)
(* Bytes are the numbers 0..255, byte strings are sequences of bytes, a    *)
(* *Message is a set holding at most one message record (Nil is the empty  *)
(* set) and an error is a string (nil is the string "nil").               *)
(***************************************************************************)
EXTENDS Integers, Sequences, FiniteSets, TLC

----------------------------------------------------------------------------
(* Bounds of the model. *)

\* the largest number of entries of a Headers map the callers build
MaxHeaders == 3

\* the largest number of bytes of a Body the callers build
MaxBody == 2

----------------------------------------------------------------------------
(* Constants of src/message.go. *)

protoVersion == 1

NoReplyExpected == 1
NoAutoStart == 2

TypeMethodCall == 1
TypeMethodReply == 2
TypeError == 3
TypeSignal == 4
typeMax == 5

FieldPath == 1
FieldInterface == 2
FieldMember == 3
FieldErrorName == 4
FieldReplySerial == 5
FieldDestination == 6
FieldSender == 7
FieldSignature == 8
FieldUnixFds == 9
fieldMax == 10

\* the marker bytes 'l' and 'B'
MarkerLittle == 108
MarkerBig == 66

\* binary.LittleEndian, binary.BigEndian, and an Order that is neither
LittleEndian == "LittleEndian"
BigEndian == "BigEndian"
NoOrder == "nil"

\* the nil error and the nil *Message
nil == "nil"
Nil == {}

InvalidMessageError(e) == "invalid message: " \o e

\* the Go types a Variant's value can have in this model
objectPathType == "ObjectPath"
stringType == "string"
uint32Type == "uint32"
signatureType == "Signature"
byteType == "byte"

fieldTypes ==
  (FieldPath :> objectPathType) @@ (FieldInterface :> stringType) @@
  (FieldMember :> stringType) @@ (FieldErrorName :> stringType) @@
  (FieldReplySerial :> uint32Type) @@ (FieldDestination :> stringType) @@
  (FieldSender :> stringType) @@ (FieldSignature :> signatureType) @@
  (FieldUnixFds :> uint32Type)

\* requiredFields with Interface left out of the Signal row
requiredFieldsShort ==
  (TypeMethodCall :> <<FieldPath, FieldMember>>) @@
  (TypeMethodReply :> <<FieldReplySerial>>) @@
  (TypeError :> <<FieldErrorName, FieldReplySerial>>) @@
  (TypeSignal :> <<FieldPath, FieldMember>>)

requiredFields ==
  (TypeMethodCall :> <<FieldPath, FieldMember>>) @@
  (TypeMethodReply :> <<FieldReplySerial>>) @@
  (TypeError :> <<FieldErrorName, FieldReplySerial>>) @@
  (TypeSignal :> <<FieldPath, FieldInterface, FieldMember>>)

\* requiredFields[t] of the Go map: the nil slice for a type that is no key
RequiredOf(t) == IF t \in DOMAIN requiredFields THEN requiredFields[t] ELSE <<>>

----------------------------------------------------------------------------
(* Arithmetic on bytes and small helpers. *)

Min(a, b) == IF a < b THEN a ELSE b

RECURSIVE BitAnd(_, _)
BitAnd(a, b) ==
  IF a = 0 \/ b = 0 THEN 0
  ELSE (IF a % 2 = 1 /\ b % 2 = 1 THEN 1 ELSE 0) + 2 * BitAnd(a \div 2, b \div 2)

RECURSIVE BitOr(_, _)
BitOr(a, b) ==
  IF a = 0 THEN b
  ELSE IF b = 0 THEN a
  ELSE (IF a % 2 = 1 \/ b % 2 = 1 THEN 1 ELSE 0) + 2 * BitOr(a \div 2, b \div 2)

\* ^x on a byte
BitNot(a) == 255 - a

\* every order in which a range loop may visit the keys of a Go map
RECURSIVE Orderings(_)
Orderings(S) ==
  IF S = {} THEN {<<>>}
  ELSE UNION {{<<x>> \o p : p \in Orderings(S \ {x})} : x \in S}

\* a Variant holding a string-like value, and one holding a uint32
StrVariant(t, s) == [type |-> t, str |-> s, num |-> 0]
NumVariant(t, n) == [type |-> t, str |-> <<>>, num |-> n]

----------------------------------------------------------------------------
(* Message.IsValid.  ks is the order in which the range loop over          *)
(* message.Headers visits the keys.                                        *)

RECURSIVE HeaderLoop(_, _, _)
HeaderLoop(headers, ks, i) ==
  IF i > Len(ks) THEN nil
  ELSE LET k == ks[i]
           v == headers[k]
       IN IF k = 0 \/ k >= fieldMax THEN InvalidMessageError("invalid header")
          ELSE IF v.type # fieldTypes[k]
               THEN InvalidMessageError("invalid type of header field")
               ELSE HeaderLoop(headers, ks, i + 1)

RECURSIVE RequiredLoop(_, _, _)
RequiredLoop(headers, req, i) ==
  IF i > Len(req) THEN nil
  ELSE IF req[i] \notin DOMAIN headers
       THEN InvalidMessageError("missing required header")
       ELSE RequiredLoop(headers, req, i + 1)

\* IsValid without the signature check
IsValidNoSignature(message, ks) ==
  IF message.Order \notin {LittleEndian, BigEndian}
  THEN InvalidMessageError("invalid byte order")
  ELSE IF BitAnd(message.Flags, BitNot(BitOr(NoAutoStart, NoReplyExpected))) # 0
  THEN InvalidMessageError("invalid flags")
  ELSE IF message.Type = 0 \/ message.Type >= typeMax
  THEN InvalidMessageError("invalid message type")
  ELSE IF HeaderLoop(message.Headers, ks, 1) # nil
  THEN HeaderLoop(message.Headers, ks, 1)
  ELSE RequiredLoop(message.Headers, RequiredOf(message.Type), 1)

\* IsValid with the type bound off by one (Type > typeMax)
IsValidTypeMax(message, ks) ==
  IF message.Order \notin {LittleEndian, BigEndian}
  THEN InvalidMessageError("invalid byte order")
  ELSE IF BitAnd(message.Flags, BitNot(BitOr(NoAutoStart, NoReplyExpected))) # 0
  THEN InvalidMessageError("invalid flags")
  ELSE IF message.Type = 0 \/ message.Type > typeMax
  THEN InvalidMessageError("invalid message type")
  ELSE IF HeaderLoop(message.Headers, ks, 1) # nil
  THEN HeaderLoop(message.Headers, ks, 1)
  ELSE IF RequiredLoop(message.Headers, RequiredOf(message.Type), 1) # nil
  THEN RequiredLoop(message.Headers, RequiredOf(message.Type), 1)
  ELSE IF Len(message.Body) # 0 /\ FieldSignature \notin DOMAIN message.Headers
  THEN InvalidMessageError("missing signature")
  ELSE nil

\* IsValid with the message type checked before the flags
IsValidTypeFirst(message, ks) ==
  IF message.Order \notin {LittleEndian, BigEndian}
  THEN InvalidMessageError("invalid byte order")
  ELSE IF message.Type = 0 \/ message.Type >= typeMax
  THEN InvalidMessageError("invalid message type")
  ELSE IF BitAnd(message.Flags, BitNot(BitOr(NoAutoStart, NoReplyExpected))) # 0
  THEN InvalidMessageError("invalid flags")
  ELSE IF HeaderLoop(message.Headers, ks, 1) # nil
  THEN HeaderLoop(message.Headers, ks, 1)
  ELSE IF RequiredLoop(message.Headers, RequiredOf(message.Type), 1) # nil
  THEN RequiredLoop(message.Headers, RequiredOf(message.Type), 1)
  ELSE IF Len(message.Body) # 0 /\ FieldSignature \notin DOMAIN message.Headers
  THEN InvalidMessageError("missing signature")
  ELSE nil

IsValid(message, ks) ==
  IF message.Order \notin {LittleEndian, BigEndian}
  THEN InvalidMessageError("invalid byte order")
  ELSE IF BitAnd(message.Flags, BitNot(BitOr(NoAutoStart, NoReplyExpected))) # 0
  THEN InvalidMessageError("invalid flags")
  ELSE IF message.Type = 0 \/ message.Type >= typeMax
  THEN InvalidMessageError("invalid message type")
  ELSE IF HeaderLoop(message.Headers, ks, 1) # nil
  THEN HeaderLoop(message.Headers, ks, 1)
  ELSE IF RequiredLoop(message.Headers, RequiredOf(message.Type), 1) # nil
  THEN RequiredLoop(message.Headers, RequiredOf(message.Type), 1)
  ELSE IF Len(message.Body) # 0 /\ FieldSignature \notin DOMAIN message.Headers
  THEN InvalidMessageError("missing signature")
  ELSE nil

----------------------------------------------------------------------------
(* The wire format of the primitive codec (encoder side): fixed-width      *)
(* scalars in the encoder's byte order, each aligned to its size counted   *)
(* from the first byte written, strings and signatures length-prefixed and *)
(* nul-terminated, a variant as its signature followed by its value, a     *)
(* struct aligned to 8, an array as a uint32 byte count followed by its    *)
(* elements.                                                               *)

Zeros(n) == [i \in 1..n |-> 0]

\* the number of padding bytes that bring offset pos to a multiple of n
PadLen(pos, n) == (n - (pos % n)) % n

\* encoder.align(n)
EncAlign(buf, n) == buf \o Zeros(PadLen(Len(buf), n))

PutUint32(order, v) ==
  LET le == <<v % 256, (v \div 256) % 256, (v \div 65536) % 256,
              (v \div 16777216) % 256>>
  IN IF order = LittleEndian THEN le ELSE <<le[4], le[3], le[2], le[1]>>

Uint32(order, b) ==
  IF order = LittleEndian
  THEN b[1] + 256 * b[2] + 65536 * b[3] + 16777216 * b[4]
  ELSE b[4] + 256 * b[3] + 65536 * b[2] + 16777216 * b[1]

\* the signature character of a Go type: 'o', 's', 'u', 'g', 'y'
SigChar(t) ==
  CASE t = objectPathType -> 111
    [] t = stringType -> 115
    [] t = uint32Type -> 117
    [] t = signatureType -> 103
    [] OTHER -> 121

EncodeUint32(buf, order, v) == EncAlign(buf, 4) \o PutUint32(order, v)

EncodeString(buf, order, s) == EncodeUint32(buf, order, Len(s)) \o s \o <<0>>

EncodeSignature(buf, s) == buf \o <<Len(s)>> \o s \o <<0>>

EncodeVariant(buf, order, v) ==
  LET b == EncodeSignature(buf, <<SigChar(v.type)>>)
  IN CASE v.type = uint32Type -> EncodeUint32(b, order, v.num)
       [] v.type \in {stringType, objectPathType} -> EncodeString(b, order, v.str)
       [] v.type = signatureType -> EncodeSignature(b, v.str)
       [] OTHER -> Append(b, v.num)

\* one header struct: (HeaderField, Variant)
EncodeHeader(buf, order, h) ==
  EncodeVariant(Append(EncAlign(buf, 8), h.HeaderField), order, h.Variant)

RECURSIVE EncodeHeaderList(_, _, _, _)
EncodeHeaderList(buf, order, hs, i) ==
  IF i > Len(hs) THEN buf
  ELSE EncodeHeaderList(EncodeHeader(buf, order, hs[i]), order, hs, i + 1)

\* the []header array
EncodeHeaders(buf, order, hs) ==
  LET at == EncAlign(buf, 4)
      start == EncAlign(at \o Zeros(4), 8)
      full == EncodeHeaderList(start, order, hs, 1)
  IN at \o PutUint32(order, Len(full) - Len(start))
        \o SubSeq(full, Len(at) + 5, Len(full))

\* Encoder.EncodeMulti of the seven values of a message's fixed part
EncodeMulti(order, marker, type, flags, proto, length, serial, hs) ==
  EncodeHeaders(
    EncodeUint32(EncodeUint32(<<marker, type, flags, proto>>, order, length),
                 order, serial),
    order, hs)

----------------------------------------------------------------------------
(* The io.Writer given to EncodeTo: it accepts all bytes of a Write, or    *)
(* only the first `room` bytes and then returns err (a nil err with fewer  *)
(* bytes accepted is a short write).                                       *)

ErrClosedPipe == "io: read/write on closed pipe"
ErrShortWrite == "short write"

Write(out, p) ==
  IF out.all \/ Len(p) <= out.room
  THEN [n |-> Len(p), err |-> nil]
  ELSE [n |-> out.room, err |-> out.err]

\* bytes.Buffer.WriteTo: one Write call with the whole buffer
WriteTo(buf, out) ==
  LET w == Write(out, buf)
  IN [calls |-> IF Len(buf) > 0 THEN <<buf>> ELSE <<>>,
      accepted |-> SubSeq(buf, 1, w.n),
      err |-> IF w.err # nil THEN w.err
              ELSE IF w.n # Len(buf) THEN ErrShortWrite ELSE nil]

----------------------------------------------------------------------------
(* Message.EncodeTo.  vks is the order in which IsValid's range loop       *)
(* visits message.Headers, eks the order of EncodeTo's own range loop.     *)
(* The result records the returned err, the writer out, the Write calls    *)
(* out received, the bytes it accepted and the length of the buffer when   *)
(* the header array was written (hdrEnd).                                  *)

MarkerOf(order) == IF order = LittleEndian THEN MarkerLittle ELSE MarkerBig

\* the encoder created with the message's own Order
EncoderOrderOfMessage(message) == message.Order

\* the order the encoder is created with
EncoderOrder(message) == LittleEndian

HeaderSlice(headers, eks) ==
  [i \in 1..Len(eks) |-> [HeaderField |-> eks[i], Variant |-> headers[eks[i]]]]

\* EncodeFixed with the flags written before the message type
EncodeFixedFlagsFirst(message, eks) ==
  EncodeMulti(EncoderOrder(message), MarkerOf(message.Order), message.Flags,
              message.Type, protoVersion, Len(message.Body), message.Serial,
              HeaderSlice(message.Headers, eks))

\* the contents of buf after enc.EncodeMulti(vs...)
EncodeFixed(message, eks) ==
  EncodeMulti(EncoderOrder(message), MarkerOf(message.Order), message.Type,
              message.Flags, protoVersion, Len(message.Body), message.Serial,
              HeaderSlice(message.Headers, eks))

\* EncodeBuffer without enc.align(8)
EncodeBufferUnaligned(message, eks) == EncodeFixed(message, eks) \o message.Body

\* the contents of buf when it is handed to out
EncodeBuffer(message, eks) == EncAlign(EncodeFixed(message, eks), 8) \o message.Body

\* EncodeTo with the validation run after the write
EncodeToLate(message, vks, eks, out) ==
  LET w == WriteTo(EncodeBuffer(message, eks), out)
  IN [err |-> IF IsValid(message, vks) # nil THEN IsValid(message, vks) ELSE w.err,
      out |-> out, calls |-> w.calls, accepted |-> w.accepted,
      hdrEnd |-> Len(EncodeFixed(message, eks))]

\* EncodeTo writing the fixed part with its padding and the body in two
\* Write calls, without a buffer
EncodeToTwoWrites(message, vks, eks, out) ==
  IF IsValid(message, vks) # nil
  THEN [err |-> IsValid(message, vks), out |-> out, calls |-> <<>>,
        accepted |-> <<>>, hdrEnd |-> 0]
  ELSE LET head == EncAlign(EncodeFixed(message, eks), 8)
           w1 == WriteTo(head, out)
           w2 == WriteTo(message.Body, out)
       IN IF w1.err # nil
          THEN [err |-> w1.err, out |-> out, calls |-> w1.calls,
                accepted |-> w1.accepted, hdrEnd |-> Len(EncodeFixed(message, eks))]
          ELSE [err |-> w2.err, out |-> out, calls |-> w1.calls \o w2.calls,
                accepted |-> w1.accepted \o w2.accepted,
                hdrEnd |-> Len(EncodeFixed(message, eks))]

EncodeTo(message, vks, eks, out) ==
  IF IsValid(message, vks) # nil
  THEN [err |-> IsValid(message, vks), out |-> out, calls |-> <<>>,
        accepted |-> <<>>, hdrEnd |-> 0]
  ELSE LET w == WriteTo(EncodeBuffer(message, eks), out)
       IN [err |-> w.err, out |-> out, calls |-> w.calls, accepted |-> w.accepted,
           hdrEnd |-> Len(EncodeFixed(message, eks))]

----------------------------------------------------------------------------
(* The io.Reader given to DecodeMessage: a stream holding data, of which   *)
(* bytes off+1.. are still to be read.  A Read returns at most chunk bytes *)
(* with a nil error; once off has reached limit it returns no byte and the *)
(* error err (io.EOF at the end of the data, or a transport error at an    *)
(* earlier offset).                                                        *)

EOF == "EOF"
ErrReset == "read: connection reset by peer"

Read(rd, want) ==
  IF rd.off >= rd.limit
  THEN [n |-> 0, err |-> rd.err]
  ELSE [n |-> Min(Min(want, rd.chunk), rd.limit - rd.off), err |-> nil]

\* one rd.Read(p) with len(p) = want issued by a decoding in state d; the
\* call is appended to d.reads and the bytes it delivered are in bytes
DoRead(d, want) ==
  LET r == Read(d.rd, want)
  IN [rd |-> [d.rd EXCEPT !.off = @ + r.n],
      reads |-> Append(d.reads, [want |-> want, n |-> r.n, err |-> r.err]),
      n |-> r.n, err |-> r.err,
      bytes |-> SubSeq(d.rd.data, d.rd.off + 1, d.rd.off + r.n)]

----------------------------------------------------------------------------
(* The primitive codec (decoder side).  A decoder state d holds the reader *)
(* rd, the log of Read calls, the offset pos counted from the marker, the  *)
(* first error met (after which every step is skipped) and the bytes of    *)
(* the last read.                                                          *)

\* F(x), with x evaluated once
With(x, F(_)) == CHOOSE r \in {F(v) : v \in {x}} : TRUE

\* the Read calls that read n bytes from d.rd or meet its error: every call
\* asks for the bytes still missing
ReadFull(d, n) ==
  LET got == Min(n, IF d.rd.limit > d.rd.off THEN d.rd.limit - d.rd.off ELSE 0)
      k == (got + d.rd.chunk - 1) \div d.rd.chunk
      calls == [i \in 1..k |->
                  [want |-> n - (i - 1) * d.rd.chunk,
                   n |-> Min(d.rd.chunk, got - (i - 1) * d.rd.chunk),
                   err |-> nil]]
      failed == IF got < n THEN <<[want |-> n - got, n |-> 0, err |-> d.rd.err]>>
                ELSE <<>>
  IN [d EXCEPT !.rd.off = @ + got,
               !.reads = @ \o calls \o failed,
               !.bytes = SubSeq(d.rd.data, d.rd.off + 1, d.rd.off + got),
               !.pos = IF got < n THEN @ ELSE @ + n,
               !.err = IF got < n THEN d.rd.err ELSE nil]

\* read exactly n bytes
DecRead(d0, n) ==
  With(d0, LAMBDA d : IF d.err # nil THEN d ELSE ReadFull(d, n))

\* decoder.align(n)
DecAlign(d0, n) == With(d0, LAMBDA d : DecRead(d, PadLen(d.pos, n)))

DecUint32(d) == DecRead(DecAlign(d, 4), 4)

ErrBadSignature == "dbus: unsupported signature"

\* a string, object path or signature of type t, its length a uint32 or,
\* for a signature, a byte
DecodeString(d0, order, t) ==
  With(IF t = signatureType THEN DecRead(d0, 1) ELSE DecUint32(d0), LAMBDA n :
    With(DecRead(n, IF n.err # nil THEN 0
                    ELSE IF t = signatureType THEN n.bytes[1]
                    ELSE Uint32(order, n.bytes)), LAMBDA s :
      With(DecRead(s, 1), LAMBDA z :
        [d |-> z, v |-> StrVariant(t, IF z.err = nil THEN s.bytes ELSE <<>>)])))

\* a value of the type the signature sig names; the result is the decoder
\* state and the Variant read
DecodeValue(d0, order, sig) ==
  IF sig = <<117>>
  THEN With(DecUint32(d0), LAMBDA a :
         [d |-> a,
          v |-> NumVariant(uint32Type,
                           IF a.err = nil THEN Uint32(order, a.bytes) ELSE 0)])
  ELSE IF sig = <<121>>
  THEN With(DecRead(d0, 1), LAMBDA a :
         [d |-> a,
          v |-> NumVariant(byteType, IF a.err = nil THEN a.bytes[1] ELSE 0)])
  ELSE IF sig = <<115>> THEN DecodeString(d0, order, stringType)
  ELSE IF sig = <<111>> THEN DecodeString(d0, order, objectPathType)
  ELSE IF sig = <<103>> THEN DecodeString(d0, order, signatureType)
  ELSE With(d0, LAMBDA d :
         [d |-> [d EXCEPT !.err = ErrBadSignature], v |-> NumVariant(byteType, 0)])

\* a variant: its signature, then the value
DecodeVariant(d0, order) ==
  With(DecodeString(d0, order, signatureType), LAMBDA g :
    IF g.d.err # nil THEN g ELSE DecodeValue(g.d, order, g.v.str))

\* the elements of the header array, up to offset end
RECURSIVE DecodeHeaderList(_, _, _, _)
DecodeHeaderList(d0, order, end, hs0) ==
  With(<<d0, hs0>>, LAMBDA a :
    IF a[1].err # nil \/ a[1].pos >= end THEN [d |-> a[1], hs |-> a[2]]
    ELSE With(DecRead(DecAlign(a[1], 8), 1), LAMBDA c :
           With(DecodeVariant(c, order), LAMBDA x :
             IF x.d.err # nil THEN [d |-> x.d, hs |-> a[2]]
             ELSE DecodeHeaderList(x.d, order, end,
                    Append(a[2], [HeaderField |-> c.bytes[1], Variant |-> x.v])))))

\* the []header array
DecodeHeaders(d0, order) ==
  With(DecUint32(d0), LAMBDA n :
    With(DecAlign(n, 8), LAMBDA a :
      IF a.err # nil THEN [d |-> a, hs |-> <<>>]
      ELSE DecodeHeaderList(a, order, a.pos + Uint32(order, n.bytes), <<>>)))

\* Decoder.DecodeMulti(&Type, &Flags, &proto, &length, &Serial, &headers)
DecodeMulti(d0, order) ==
  With(DecRead(d0, 1), LAMBDA t :
  With(DecRead(t, 1), LAMBDA f :
  With(DecRead(f, 1), LAMBDA p :
  With(DecUint32(p), LAMBDA l :
  With(DecUint32(l), LAMBDA s :
  With(DecodeHeaders(s, order), LAMBDA h :
    IF h.d.err # nil
    THEN [d |-> h.d, Type |-> 0, Flags |-> 0, proto |-> 0, length |-> 0,
          Serial |-> 0, headers |-> <<>>]
    ELSE [d |-> h.d, Type |-> t.bytes[1], Flags |-> f.bytes[1],
          proto |-> p.bytes[1], length |-> Uint32(order, l.bytes),
          Serial |-> Uint32(order, s.bytes), headers |-> h.hs]))))))

----------------------------------------------------------------------------
(* DecodeMessage.  Its result records the returned (message, err), whether *)
(* the call panicked instead of returning, the reader as the call left it, *)
(* the Read calls issued, and the stream offsets at which the header array *)
(* ended (hdrEnd) and at which the body read started (bodyOff).            *)

NewDecoding(rd) == [rd |-> rd, reads |-> <<>>, pos |-> 0, err |-> nil, bytes |-> <<>>]

Return(message, err, d, hdrEnd, bodyOff) ==
  [message |-> message, err |-> err, panic |-> FALSE, built |-> FALSE,
   rd |-> d.rd, reads |-> d.reads, hdrEnd |-> hdrEnd, bodyOff |-> bodyOff]

\* the switch on b[0] without its default case
AnyMarker(b) == TRUE

\* the cases of the switch on b[0]
KnownMarker(b) == b \in {MarkerLittle, MarkerBig}

\* the byte order the marker byte names
MarkerOrder(b) == IF b = MarkerLittle THEN LittleEndian ELSE BigEndian

\* the decoder DecodeMessage creates once the marker is read
DecoderAfterMarker(first) ==
  [rd |-> first.rd, reads |-> first.reads, pos |-> 1, err |-> nil, bytes |-> <<>>]

\* the Headers map keeping the first entry of each field code
HeaderMapFirst(hs) ==
  [k \in {hs[i].HeaderField : i \in DOMAIN hs} |->
     hs[CHOOSE i \in DOMAIN hs :
          /\ hs[i].HeaderField = k
          /\ \A j \in DOMAIN hs : hs[j].HeaderField = k => j >= i].Variant]

\* message.Headers: a later entry of headers replaces an earlier one with
\* the same field code
HeaderMap(hs) ==
  [k \in {hs[i].HeaderField : i \in DOMAIN hs} |->
     hs[CHOOSE i \in DOMAIN hs :
          /\ hs[i].HeaderField = k
          /\ \A j \in DOMAIN hs : hs[j].HeaderField = k => j <= i].Variant]

\* message.Body after the one rd.Read(message.Body) that delivered body
BodyRead(length, body) == body.bytes \o Zeros(length - body.n)

\* DecodeBody with the body's read error replaced by an InvalidMessageError
DecodeBodyWrapped(order, m) ==
  With(DecAlign(m.d, 8), LAMBDA al :
    IF al.err # nil
    THEN [Return(Nil, al.err, al, m.d.rd.off, 0) EXCEPT !.panic = TRUE]
    ELSE IF m.length = 0
    THEN [Return({[Order |-> order, Type |-> m.Type, Flags |-> m.Flags,
                   Serial |-> m.Serial, Headers |-> HeaderMap(m.headers),
                   Body |-> <<>>]}, nil, al, m.d.rd.off, al.rd.off)
            EXCEPT !.built = TRUE]
    ELSE With(DoRead(al, m.length), LAMBDA body :
           IF body.err # nil
           THEN Return(Nil, InvalidMessageError("short body"), body,
                       m.d.rd.off, al.rd.off)
           ELSE [Return({[Order |-> order, Type |-> m.Type, Flags |-> m.Flags,
                          Serial |-> m.Serial, Headers |-> HeaderMap(m.headers),
                          Body |-> BodyRead(m.length, body)]},
                        nil, body, m.d.rd.off, al.rd.off)
                   EXCEPT !.built = TRUE]))

\* DecodeBody preceded by a check of the protocol version read
DecodeBodyVersionChecked(order, m) ==
  IF m.proto # protoVersion
  THEN Return(Nil, InvalidMessageError("invalid protocol version"), m.d,
              m.d.rd.off, 0)
  ELSE
    With(DecAlign(m.d, 8), LAMBDA al :
      IF al.err # nil
      THEN [Return(Nil, al.err, al, m.d.rd.off, 0) EXCEPT !.panic = TRUE]
      ELSE IF m.length = 0
      THEN [Return({[Order |-> order, Type |-> m.Type, Flags |-> m.Flags,
                     Serial |-> m.Serial, Headers |-> HeaderMap(m.headers),
                     Body |-> <<>>]}, nil, al, m.d.rd.off, al.rd.off)
              EXCEPT !.built = TRUE]
      ELSE With(DoRead(al, m.length), LAMBDA body :
             IF body.err # nil
             THEN Return(Nil, body.err, body, m.d.rd.off, al.rd.off)
             ELSE [Return({[Order |-> order, Type |-> m.Type, Flags |-> m.Flags,
                            Serial |-> m.Serial, Headers |-> HeaderMap(m.headers),
                            Body |-> BodyRead(m.length, body)]},
                          nil, body, m.d.rd.off, al.rd.off)
                     EXCEPT !.built = TRUE]))

\* the part of DecodeMessage that follows dec.DecodeMulti
DecodeBody(order, m) ==
  With(DecAlign(m.d, 8), LAMBDA al :
    IF al.err # nil
    THEN [Return(Nil, al.err, al, m.d.rd.off, 0) EXCEPT !.panic = TRUE]
    ELSE IF m.length = 0
    THEN [Return({[Order |-> order, Type |-> m.Type, Flags |-> m.Flags,
                   Serial |-> m.Serial, Headers |-> HeaderMap(m.headers),
                   Body |-> <<>>]}, nil, al, m.d.rd.off, al.rd.off)
            EXCEPT !.built = TRUE]
    ELSE With(DoRead(al, m.length), LAMBDA body :
           IF body.err # nil
           THEN Return(Nil, body.err, body, m.d.rd.off, al.rd.off)
           ELSE [Return({[Order |-> order, Type |-> m.Type, Flags |-> m.Flags,
                          Serial |-> m.Serial, Headers |-> HeaderMap(m.headers),
                          Body |-> BodyRead(m.length, body)]},
                        nil, body, m.d.rd.off, al.rd.off)
                   EXCEPT !.built = TRUE]))

\* DecodeMessage up to the call of IsValid: built tells that the message
\* was assembled and is still to be validated
DecodeRead(rd) ==
  With(DoRead(NewDecoding(rd), 1), LAMBDA first :
    IF first.err # nil THEN Return(Nil, first.err, first, 0, 0)
    ELSE IF ~KnownMarker(first.bytes[1])
    THEN Return(Nil, InvalidMessageError("invalid byte order"), first, 0, 0)
    ELSE With(DecodeMulti(DecoderAfterMarker(first), MarkerOrder(first.bytes[1])),
              LAMBDA m :
                IF m.d.err # nil THEN Return(Nil, m.d.err, m.d, 0, 0)
                ELSE DecodeBody(MarkerOrder(first.bytes[1]), m)))

\* the keys of the Headers map of the message DecodeMessage assembles
DecodedKeys(rd) ==
  With(DecodeRead(rd), LAMBDA p :
    IF p.built THEN UNION {DOMAIN m.Headers : m \in p.message} ELSE {})

\* DecodeMessage returning the message it assembled along with the
\* validation error
DecodeMessageKeep(rd, ks) ==
  With(DecodeRead(rd), LAMBDA p :
    IF ~p.built THEN p
    ELSE With(IsValid(CHOOSE m \in p.message : TRUE, ks), LAMBDA e :
           [p EXCEPT !.err = e, !.built = FALSE]))

\* ks is the order in which IsValid's range loop visits the decoded Headers
DecodeMessage(rd, ks) ==
  With(DecodeRead(rd), LAMBDA p :
    IF ~p.built THEN p
    ELSE With(IsValid(CHOOSE m \in p.message : TRUE, ks), LAMBDA e :
           IF e # nil
           THEN [p EXCEPT !.message = Nil, !.err = e, !.built = FALSE]
           ELSE [p EXCEPT !.built = FALSE]))

----------------------------------------------------------------------------
(* The inputs the callers supply. *)

Orders == {LittleEndian, BigEndian, NoOrder}

TypeValues == 0..typeMax

FlagValues == {NoReplyExpected + NoAutoStart, 4}

SerialValues == {16909060}

\* the body of n bytes 0xAA, 0xAB, ...
BodyOf(n) == [i \in 1..n |-> 169 + i]

Bodies == {BodyOf(0), BodyOf(MaxBody)}

HeaderKeys ==
  {0, FieldPath, FieldInterface, FieldMember, FieldErrorName, FieldReplySerial,
   FieldSignature, fieldMax}

\* the values a caller gives the header k: one of the registry's type and,
\* for Member, one of another type
Candidates(k) ==
  CASE k = FieldPath -> {StrVariant(objectPathType, <<47>>)}
    [] k = FieldMember -> {StrVariant(stringType, <<109, 109>>),
                           NumVariant(uint32Type, 7)}
    [] k = FieldReplySerial -> {NumVariant(uint32Type, 258)}
    [] k = FieldSignature -> {StrVariant(signatureType, <<121>>)}
    [] k = fieldMax -> {NumVariant(uint32Type, 1)}
    [] OTHER -> {StrVariant(stringType, <<105>>)}

RECURSIVE MapsOver(_)
MapsOver(S) ==
  IF S = {} THEN {<<>>}
  ELSE LET k == CHOOSE x \in S : TRUE
       IN {(k :> v) @@ m : v \in Candidates(k), m \in MapsOver(S \ {k})}

HeaderMaps ==
  UNION {MapsOver(S) : S \in {T \in SUBSET HeaderKeys : Cardinality(T) <= MaxHeaders}}

Messages ==
  [Order : Orders, Type : TypeValues, Flags : FlagValues, Serial : SerialValues,
   Headers : HeaderMaps, Body : Bodies]

AnyWriter == [all |-> TRUE, room |-> 0, err |-> nil]

Writers ==
  {AnyWriter} \cup {[all |-> FALSE, room |-> 8, err |-> e] : e \in {nil, ErrClosedPipe}}

\* a stream that delivers all of data, at most chunk bytes per Read
WholeStream(data, chunk) ==
  [data |-> data, off |-> 0, chunk |-> chunk, limit |-> Len(data), err |-> EOF]

\* a stream that fails with err once `limit` bytes of data are delivered
BrokenStream(data, limit, err) ==
  [data |-> data, off |-> 0, chunk |-> Len(data), limit |-> limit, err |-> err]

\* the header arrays a peer sends
PeerHeaderLists ==
  LET rs(n) == [HeaderField |-> FieldReplySerial, Variant |-> NumVariant(uint32Type, n)]
      sg == [HeaderField |-> FieldSignature,
             Variant |-> StrVariant(signatureType, <<121>>)]
      ds == [HeaderField |-> FieldDestination,
             Variant |-> StrVariant(stringType, <<58, 49>>)]
      bad == [HeaderField |-> FieldReplySerial,
              Variant |-> StrVariant(stringType, <<58, 49>>)]
  IN {<<>>, <<rs(258), sg>>, <<ds, rs(258), sg>>, <<rs(258), sg, rs(7)>>,
      <<bad, sg, rs(7)>>}

\* a message as a peer writes it: the marker, the fixed part and the header
\* array in the peer's byte order, the padding, the body
PeerWire(marker, order, type, proto, hs, body) ==
  EncAlign(EncodeMulti(order, marker, type, 0, proto, Len(body), 16909060, hs), 8)
    \o body

PeerWires ==
  {PeerWire(mo[1], mo[2], t, p, hs, b) :
     mo \in {<<MarkerLittle, LittleEndian>>, <<MarkerBig, BigEndian>>,
             <<88, BigEndian>>},
     t \in {TypeMethodReply, typeMax}, p \in {protoVersion, protoVersion + 1},
     hs \in PeerHeaderLists, b \in Bodies}

PeerReaders ==
  UNION {{WholeStream(w, c) : c \in {1, Len(w)}} \cup
         {BrokenStream(w, k, e) : k \in 0..(Len(w) - 1), e \in {EOF, ErrReset}} :
         w \in PeerWires}

----------------------------------------------------------------------------
(* The systemd package (src/systemd/systemd.go).  An error is a record with *)
(* its dynamic type and, for a db.Error, its Name; NilError is the nil      *)
(* error.  A Systemd connection is nil, the connection dbus.New returned,   *)
(* or the stub.                                                            *)

\* the largest number of calls of StartSystemdConnection, Start and Require
MaxStarts == 3

\* the number of goroutines that call them
MaxGoroutines == 2

Goroutines == 1..MaxGoroutines

NilError == [type |-> "nil", Name |-> ""]

DbError(n) == [type |-> "db.Error", Name |-> n]

ErrNoSuchUnit == DbError("org.freedesktop.systemd1.NoSuchUnit")

\* errors a Systemd implementation returns besides ErrNoSuchUnit: a load
\* failure, a db.Error of another name, and an error that is no db.Error
ErrLoadFailed == DbError("org.freedesktop.systemd1.LoadFailed")
ErrUnitExists == DbError("org.freedesktop.systemd1.UnitExists")
ErrClosed == [type |-> "*errors.errorString", Name |-> "dbus: connection closed by user"]

\* SystemdError with the comparison of the name left out
SystemdErrorAnyName(e, n) == e.type = "db.Error"

SystemdError(e, n) == e.type = "db.Error" /\ e.Name = n

IsNoSuchUnit(e) == SystemdError(e, "org.freedesktop.systemd1.NoSuchUnit")

IsLoadFailed(e) == SystemdError(e, "org.freedesktop.systemd1.LoadFailed")

\* the function StartAndEnableUnit gives to IsUnitProperty
NeedsReload(p) == p.LoadState = "not-found" \/ p.NeedDaemonReload = TRUE

\* IsUnitProperty, given what systemd.GetUnitProperties returned
IsUnitProperty(got) ==
  IF got.err # NilError THEN [ok |-> FALSE, err |-> got.err]
  ELSE [ok |-> NeedsReload(got.p), err |-> NilError]

\* what the Systemd given to StartAndEnableUnit returns
UnitErrors == {ErrNoSuchUnit, ErrLoadFailed, ErrUnitExists, ErrClosed}

StartUnitResults ==
  {[status |-> "done", err |-> NilError]} \cup
  {[status |-> "", err |-> e] : e \in UnitErrors}

NoProperties == [LoadState |-> "", NeedDaemonReload |-> FALSE]

GetUnitPropertiesResults ==
  {[p |-> [LoadState |-> l, NeedDaemonReload |-> r], err |-> NilError] :
     l \in {"loaded", "not-found"}, r \in BOOLEAN} \cup
  {[p |-> NoProperties, err |-> ErrClosed]}

\* the stub connection
NewStubSystemd == "stub"

\* what dbus.New returns
ErrDial == [type |-> "*net.OpError", Name |-> "dial unix /var/run/dbus/system_bus_socket"]

DialResults == {[conn |-> "conn", err |-> NilError], [conn |-> nil, err |-> ErrDial]}

\* NewSystemdConnection, given what dbus.New returned
NewSystemdConnection(dial) ==
  IF dial.err # NilError THEN [conn |-> NewStubSystemd, err |-> dial.err]
  ELSE [conn |-> dial.conn, err |-> NilError]

\* the assignment leaving the global as it is when the connection failed
AssignedNoStub(current, r) == IF r.err # NilError THEN current ELSE r.conn

\* the value StartSystemdConnection assigns to the global connection, being
\* current, when NewSystemdConnection returned r: conn on either branch
Assigned(current, r) == IF r.err # NilError THEN r.conn ELSE r.conn

\* a goroutine that is in none of StartSystemdConnection, Start and Require
NoDial == [conn |-> nil, err |-> NilError]
IdleGoroutine == [pc |-> "idle", fn |-> "", r |-> NoDial, overlap |-> FALSE]

----------------------------------------------------------------------------
(* The state: the caller's position, the message it validated or encoded,  *)
(* and what each call returned; for the systemd package the position upc   *)
(* of the call of StartAndEnableUnit, its arguments (unitargs), what its   *)
(* first StartUnit returned                                                *)
(* (started), the calls it made with their results (syslog) and what it    *)
(* returned (unitret); the global connection, the calls of                 *)
(* StartSystemdConnection, Start and Require that have returned, in the    *)
(* order of their return (starts), whether the process runs or has exited  *)
(* (proc), and for each goroutine where it is in such a call (gs): its     *)
(* position pc, the function fn it called, what NewSystemdConnection       *)
(* returned to it (r) and whether its call ran while another goroutine's   *)
(* call did (overlap).                                                     *)

VARIABLES pc, message, valid, sent, result,
          upc, unitargs, started, syslog, unitret, connection, starts, proc, gs

msgvars == <<pc, message, valid, sent, result>>

unitvars == <<upc, unitargs, started, syslog, unitret>>

sdvars ==
  <<upc, unitargs, started, syslog, unitret, connection, starts, proc, gs>>

vars == <<pc, message, valid, sent, result,
          upc, unitargs, started, syslog, unitret, connection, starts, proc, gs>>

NotCalled == "not called"

NoSend ==
  [err |-> nil, out |-> AnyWriter, calls |-> <<>>, accepted |-> <<>>, hdrEnd |-> 0]

NoResult == Return(Nil, nil, NewDecoding(WholeStream(<<>>, 1)), 0, 0)

\* the arguments name, path and mode callers give StartAndEnableUnit
NoArgs == [name |-> "", path |-> "", mode |-> ""]
UnitArgs ==
  {[name |-> "a.service", path |-> "/units/a.service", mode |-> m] :
     m \in {"replace", "fail"}}

\* StartAndEnableUnit has not called StartUnit, has not returned
NotStarted == [status |-> "", err |-> NilError]
NotReturned == [status |-> "not returned", err |-> NilError]

Init ==
  /\ pc = "idle"
  /\ message = Nil
  /\ valid = NotCalled
  /\ sent = NoSend
  /\ result = NoResult
  /\ upc = "idle"
  /\ unitargs = NoArgs
  /\ started = NotStarted
  /\ syslog = <<>>
  /\ unitret = NotReturned
  /\ connection = nil
  /\ starts = <<>>
  /\ proc = "running"
  /\ gs = [g \in Goroutines |-> IdleGoroutine]

\* a caller validates a message it built
CallIsValid ==
  /\ pc = "idle"
  /\ \E m \in Messages : \E ks \in Orderings(DOMAIN m.Headers) :
       /\ message' = {m}
       /\ valid' = IsValid(m, ks)
  /\ pc' = "validated"
  /\ UNCHANGED <<sent, result>>
  /\ UNCHANGED sdvars

\* a caller encodes a message it built to a writer.  The two range loops
\* over message.Headers (IsValid's and EncodeTo's own) each visit the keys in
\* an order of their own; only one of the two orders bears on the outcome
\* (the first when IsValid fails, the second when it passes), so one order
\* ks is drawn and given to both.
CallEncodeTo ==
  /\ pc = "idle"
  /\ \E m \in Messages : \E ks \in Orderings(DOMAIN m.Headers) : \E out \in Writers :
       /\ message' = {m}
       /\ sent' = EncodeTo(m, ks, ks, out)
  /\ pc' = "encoded"
  /\ UNCHANGED <<valid, result>>
  /\ UNCHANGED sdvars

\* a caller decodes a message from a stream a peer wrote
CallDecodeMessage ==
  /\ pc = "idle"
  /\ \E rd \in PeerReaders : \E ks \in Orderings(DecodedKeys(rd)) :
       result' = DecodeMessage(rd, ks)
  /\ pc' = "decoded"
  /\ UNCHANGED <<message, valid, sent>>
  /\ UNCHANGED sdvars

\* a caller decodes what the writer of the preceding EncodeTo accepted
CallDecodeSent ==
  /\ pc = "encoded"
  /\ sent.accepted # <<>>
  /\ \E c \in {1, Len(sent.accepted)} :
       \E ks \in Orderings(DecodedKeys(WholeStream(sent.accepted, c))) :
         result' = DecodeMessage(WholeStream(sent.accepted, c), ks)
  /\ pc' = "looped"
  /\ UNCHANGED <<message, valid, sent>>
  /\ UNCHANGED sdvars

Next == CallIsValid \/ CallEncodeTo \/ CallDecodeMessage \/ CallDecodeSent

Spec == Init /\ [][Next]_vars

----------------------------------------------------------------------------
(* StartAndEnableUnit, one action for each call it makes.  The results of  *)
(* the Systemd methods and of os.Stat are the environment's.               *)

\* an entry of syslog: the call, its arguments, and the status and error
\* it returned
Called(c, a, st, e) == [call |-> c, args |-> a, status |-> st, err |-> e]

\* systemd.StartUnit(name, mode) and the switch on its error
StartUnit ==
  /\ proc = "running"
  /\ upc = "idle"
  /\ \E a \in UnitArgs : \E r \in StartUnitResults :
       /\ unitargs' = a
       /\ started' = r
       /\ syslog' = Append(syslog, Called("StartUnit", <<a.name, a.mode>>,
                                          r.status, r.err))
       /\ IF IsNoSuchUnit(r.err) \/ IsLoadFailed(r.err)
          THEN upc' = "stat" /\ unitret' = unitret
          ELSE upc' = "done" /\ unitret' = r
  /\ UNCHANGED <<connection, starts, proc, gs>>
  /\ UNCHANGED msgvars

\* os.Stat(path)
Stat ==
  /\ proc = "running"
  /\ upc = "stat"
  /\ \E e \in {NilError, [type |-> "*os.PathError", Name |-> "stat"]} :
       /\ syslog' = Append(syslog, Called("Stat", <<unitargs.path>>, "", e))
       /\ IF e # NilError
          THEN upc' = "done" /\ unitret' = [status |-> "", err |-> ErrNoSuchUnit]
          ELSE upc' = "enable" /\ unitret' = unitret
  /\ UNCHANGED <<unitargs, started, connection, starts, proc, gs>>
  /\ UNCHANGED msgvars

\* systemd.EnableUnitFiles([]string{path}, false, true)
EnableUnitFiles ==
  /\ proc = "running"
  /\ upc = "enable"
  /\ \E e \in {NilError, ErrUnitExists, ErrClosed} :
       /\ syslog' = Append(syslog, Called("EnableUnitFiles", <<unitargs.path>>, "", e))
       /\ IF e # NilError
          THEN upc' = "done" /\ unitret' = [status |-> "", err |-> e]
          ELSE upc' = "property" /\ unitret' = unitret
  /\ UNCHANGED <<unitargs, started, connection, starts, proc, gs>>
  /\ UNCHANGED msgvars

\* IsUnitProperty(systemd, name, f), which calls systemd.GetUnitProperties
GetUnitProperties ==
  /\ proc = "running"
  /\ upc = "property"
  /\ \E got \in GetUnitPropertiesResults :
       /\ syslog' = Append(syslog, Called("GetUnitProperties", <<unitargs.name>>, "", got.err))
       /\ upc' = IF IsUnitProperty(got).err = NilError /\ IsUnitProperty(got).ok
                 THEN "reload" ELSE "start"
  /\ UNCHANGED <<unitargs, started, unitret, connection, starts, proc, gs>>
  /\ UNCHANGED msgvars

\* systemd.Reload(); its error is logged only
Reload ==
  /\ proc = "running"
  /\ upc = "reload"
  /\ \E errr \in {NilError, ErrClosed} :
       syslog' = Append(syslog, Called("Reload", <<>>, "", errr))
  /\ upc' = "start"
  /\ UNCHANGED <<unitargs, started, unitret, connection, starts, proc, gs>>
  /\ UNCHANGED msgvars

\* return systemd.StartUnit(name, mode)
StartUnitAgain ==
  /\ proc = "running"
  /\ upc = "start"
  /\ \E r \in StartUnitResults :
       /\ syslog' = Append(syslog, Called("StartUnit",
                                          <<unitargs.name, unitargs.mode>>,
                                          r.status, r.err))
       /\ unitret' = r
  /\ upc' = "done"
  /\ UNCHANGED <<unitargs, started, connection, starts, proc, gs>>
  /\ UNCHANGED msgvars

----------------------------------------------------------------------------
(* The calls of StartSystemdConnection, Start and Require by the           *)
(* goroutines.  A call is four steps: the test of the global connection,   *)
(* NewSystemdConnection (which blocks in dbus.New), the assignment to the  *)
(* global, and the return (through Start's logging and Require's exit).    *)
(* Nothing guards the global, so the steps of two goroutines interleave.   *)
(* What dbus.New returns is the environment's.                             *)

\* an entry of starts: the function called, whether the call called
\* NewSystemdConnection, the error returned, the global connection at the
\* return, and whether the call ran while another goroutine's call did
Started(f, a, e, c, o) ==
  [fn |-> f, attempted |-> a, err |-> e, connection |-> c, overlap |-> o]

\* the goroutines that are in a call
Running == {h \in Goroutines : gs[h].pc # "idle"}

\* goroutine g calls f, which comes to `if connection == nil`: with a
\* connection set the call returns nil, without one it goes on to
\* NewSystemdConnection
Enter(g, f) ==
  /\ proc = "running"
  /\ gs[g].pc = "idle"
  /\ Len(starts) + Cardinality(Running) < MaxStarts
  /\ IF connection = nil
     THEN /\ gs' = [h \in Goroutines |->
                     IF h = g
                     THEN [pc |-> "dial", fn |-> f, r |-> NoDial,
                           overlap |-> Running # {}]
                     ELSE IF h \in Running THEN [gs[h] EXCEPT !.overlap = TRUE]
                     ELSE gs[h]]
          /\ starts' = starts
     ELSE /\ gs' = [h \in Goroutines |->
                     IF h \in Running THEN [gs[h] EXCEPT !.overlap = TRUE]
                     ELSE gs[h]]
          /\ starts' = Append(starts,
                              Started(f, FALSE, NilError, connection, Running # {}))
  /\ UNCHANGED <<upc, unitargs, started, syslog, unitret, connection, proc>>
  /\ UNCHANGED msgvars

CallStartSystemdConnection(g) == Enter(g, "StartSystemdConnection")

CallStart(g) == Enter(g, "Start")

CallRequire(g) == Enter(g, "Require")

\* conn, err := NewSystemdConnection()
Dial(g) ==
  /\ proc = "running"
  /\ gs[g].pc = "dial"
  /\ \E dial \in DialResults :
       gs' = [gs EXCEPT ![g].pc = "assign", ![g].r = NewSystemdConnection(dial)]
  /\ UNCHANGED <<upc, unitargs, started, syslog, unitret, connection, starts, proc>>
  /\ UNCHANGED msgvars

\* connection = conn, on either branch
Assign(g) ==
  /\ proc = "running"
  /\ gs[g].pc = "assign"
  /\ connection' = Assigned(connection, gs[g].r)
  /\ gs' = [gs EXCEPT ![g].pc = "return"]
  /\ UNCHANGED <<upc, unitargs, started, syslog, unitret, starts, proc>>
  /\ UNCHANGED msgvars

\* the return of the error, through Start (which logs it) and Require when
\* they were called; Require ends the process on an error
ReturnErr(g) ==
  /\ proc = "running"
  /\ gs[g].pc = "return"
  /\ starts' = Append(starts,
                      Started(gs[g].fn, TRUE, gs[g].r.err, connection,
                              gs[g].overlap))
  /\ proc' = IF gs[g].fn = "Require" /\ gs[g].r.err # NilError
             THEN "exited" ELSE proc
  /\ gs' = [gs EXCEPT ![g] = IdleGoroutine]
  /\ UNCHANGED <<upc, unitargs, started, syslog, unitret, connection>>
  /\ UNCHANGED msgvars

ConnectionNext ==
  \/ \E g \in Goroutines : CallStartSystemdConnection(g)
  \/ \E g \in Goroutines : CallStart(g)
  \/ \E g \in Goroutines : CallRequire(g)
  \/ \E g \in Goroutines : Dial(g)
  \/ \E g \in Goroutines : Assign(g)
  \/ \E g \in Goroutines : ReturnErr(g)

\* the calls of StartSystemdConnection, Start and Require
ConnectionSpec == Init /\ [][ConnectionNext]_vars

UnitNext ==
  \/ StartUnit
  \/ Stat
  \/ EnableUnitFiles
  \/ GetUnitProperties
  \/ Reload
  \/ StartUnitAgain

\* a call of StartAndEnableUnit
UnitSpec == Init /\ [][UnitNext]_vars

----------------------------------------------------------------------------
(* The properties. *)

Validated == pc = "validated"
Encoded == pc \in {"encoded", "looped"}
Decoded == pc \in {"decoded", "looped"}

\* the first Read of the decoding delivered the byte b with a nil error
FirstByte(b) ==
  /\ result.reads # <<>>
  /\ result.reads[1].n = 1 /\ result.reads[1].err = nil
  /\ result.rd.data[1] = b

\* the invariants of a Message, stated one by one
OrderKnown(m) == m.Order \in {LittleEndian, BigEndian}
FlagsKnown(m) ==
  m.Flags \in {0, NoReplyExpected, NoAutoStart, NoReplyExpected + NoAutoStart}
TypeKnown(m) ==
  m.Type \in {TypeMethodCall, TypeMethodReply, TypeError, TypeSignal}
HeadersKnown(m) ==
  \A k \in DOMAIN m.Headers :
    /\ k \in FieldPath..FieldUnixFds
    /\ m.Headers[k].type =
         (CASE k = FieldPath -> objectPathType
            [] k \in {FieldReplySerial, FieldUnixFds} -> uint32Type
            [] k = FieldSignature -> signatureType
            [] OTHER -> stringType)
RequiredSet(t) ==
  CASE t = TypeMethodCall -> {FieldPath, FieldMember}
    [] t = TypeMethodReply -> {FieldReplySerial}
    [] t = TypeError -> {FieldErrorName, FieldReplySerial}
    [] t = TypeSignal -> {FieldPath, FieldInterface, FieldMember}
    [] OTHER -> {}
RequiredPresent(m) == RequiredSet(m.Type) \subseteq DOMAIN m.Headers
SignaturePresent(m) == m.Body # <<>> => FieldSignature \in DOMAIN m.Headers

\* C1: round trip.  Whenever EncodeTo returned nil for a message m and
\* DecodeMessage then reads the bytes the writer accepted (from a reader that
\* delivers every byte asked for), it returns a nil error and a message with
\* the Type, Flags, Serial, Headers and Body of m.
C1_RoundTrip ==
  (pc = "looped" /\ sent.err = nil /\ result.rd.chunk >= Len(result.rd.data)) =>
    /\ result.err = nil
    /\ result.message # Nil
    /\ \A m \in message : \A d \in result.message :
         /\ d.Type = m.Type /\ d.Flags = m.Flags /\ d.Serial = m.Serial
         /\ d.Headers = m.Headers /\ d.Body = m.Body

\* C2: EncodeTo of a message that fails IsValid returns a validation error
\* of the message, and the writer receives no Write call and no byte.
C2_InvalidWritesNothing ==
  Encoded =>
    \A m \in message :
      (\E ks \in Orderings(DOMAIN m.Headers) : IsValid(m, ks) # nil) =>
        /\ sent.err \in {IsValid(m, ks) : ks \in Orderings(DOMAIN m.Headers)}
        /\ sent.err # nil
        /\ sent.calls = <<>>
        /\ sent.accepted = <<>>

C2_Witness ==
  /\ pc = "encoded"
  /\ \E m \in message : OrderKnown(m) /\ ~RequiredPresent(m)
  /\ sent.err = InvalidMessageError("missing required header")
  /\ sent.calls = <<>>

\* C3: whenever DecodeMessage returns, it returns either a message that
\* passes IsValid with a nil error, or a nil message with a non-nil error.
C3_NoPartialMessage ==
  (Decoded /\ ~result.panic) =>
    \/ /\ result.message # Nil
       /\ result.err = nil
       /\ \A m \in result.message :
            \A ks \in Orderings(DOMAIN m.Headers) : IsValid(m, ks) = nil
    \/ /\ result.message = Nil
       /\ result.err # nil

\* a validation failure after every byte of the message was read
C3_Witness ==
  /\ pc = "decoded"
  /\ result.message = Nil
  /\ result.err = InvalidMessageError("missing required header")
  /\ result.rd.off = Len(result.rd.data)

\* C4: a message that lacks a field required for its type fails IsValid, with
\* the missing-required-header error when the checks that come before (byte
\* order, flags, type, header entries) pass; a message that has every
\* required field never gets that error.
C4_RequiredFields ==
  Validated =>
    \A m \in message :
      /\ (TypeKnown(m) /\ ~RequiredPresent(m)) => valid # nil
      /\ (OrderKnown(m) /\ FlagsKnown(m) /\ TypeKnown(m) /\ HeadersKnown(m)
            /\ ~RequiredPresent(m))
           => valid = InvalidMessageError("missing required header")
      /\ RequiredPresent(m) => valid # InvalidMessageError("missing required header")

\* a Signal with Path and Member but no Interface
C4_Witness ==
  /\ Validated
  /\ \E m \in message :
       /\ m.Type = TypeSignal
       /\ DOMAIN m.Headers = {FieldPath, FieldMember}
       /\ HeadersKnown(m)
  /\ valid = InvalidMessageError("missing required header")

\* C5: a message with a non-empty Body and no Signature header fails IsValid,
\* with the missing-signature error when every other requirement is met; a
\* message that meets the other requirements passes when it has a Signature
\* header or an empty Body.
C5_Signature ==
  Validated =>
    \A m \in message :
      /\ (m.Body # <<>> /\ FieldSignature \notin DOMAIN m.Headers) => valid # nil
      /\ (OrderKnown(m) /\ FlagsKnown(m) /\ TypeKnown(m) /\ HeadersKnown(m)
            /\ RequiredPresent(m)) =>
           /\ (m.Body # <<>> /\ FieldSignature \notin DOMAIN m.Headers)
                => valid = InvalidMessageError("missing signature")
           /\ (m.Body = <<>> \/ FieldSignature \in DOMAIN m.Headers) => valid = nil

C5_Witness ==
  /\ Validated
  /\ \E m \in message :
       /\ m.Body # <<>>
       /\ FieldSignature \notin DOMAIN m.Headers
       /\ RequiredPresent(m)
  /\ valid = InvalidMessageError("missing signature")

\* C6: when the first Read delivers a byte that is neither 'l' nor 'B',
\* DecodeMessage returns the invalid-byte-order error and no message, having
\* issued that one Read and consumed that one byte.
C6_UnknownMarker ==
  (Decoded /\ \E b \in (0..255) \ {MarkerLittle, MarkerBig} : FirstByte(b)) =>
    /\ result.err = InvalidMessageError("invalid byte order")
    /\ result.message = Nil
    /\ Len(result.reads) = 1
    /\ result.rd.off = 1

\* a stream that starts with 'X' and holds more bytes
C6_Witness ==
  /\ pc = "decoded"
  /\ FirstByte(88)
  /\ result.rd.limit > 1
  /\ result.err = InvalidMessageError("invalid byte order")

\* C7: in the buffer EncodeTo hands to the writer, and in the stream of a
\* message DecodeMessage returns, the body starts at an offset that is a
\* multiple of 8, at most 7 bytes after the end of the header array.
C7_Alignment ==
  /\ (Encoded /\ sent.calls # <<>>) =>
       \A m \in message :
         LET buf == sent.calls[1]
             bodyOff == Len(buf) - Len(m.Body)
         IN /\ bodyOff % 8 = 0
            /\ bodyOff - sent.hdrEnd \in 0..7
            /\ SubSeq(buf, bodyOff + 1, Len(buf)) = m.Body
  /\ (Decoded /\ result.message # Nil) =>
       /\ result.bodyOff % 8 = 0
       /\ result.bodyOff - result.hdrEnd \in 0..7

\* a round trip of a message with a body and with padding before it
C7_Witness ==
  /\ pc = "looped"
  /\ sent.hdrEnd % 8 # 0
  /\ result.message # Nil
  /\ result.bodyOff > result.hdrEnd
  /\ \E m \in result.message : m.Body # <<>>

\* C8: when a Read of the marker, of the fixed part and header array or of
\* the body returns an error, no Read follows it and DecodeMessage returns
\* that error and no message; when the writer's Write returns an error,
\* EncodeTo returns that error.
C8_TransportErrors ==
  /\ (Decoded /\ ~result.panic) =>
       \A i \in DOMAIN result.reads :
         result.reads[i].err # nil =>
           /\ i = Len(result.reads)
           /\ result.err = result.reads[i].err
           /\ result.message = Nil
  /\ (Encoded /\ sent.calls # <<>>) =>
       (Write(sent.out, sent.calls[1]).err # nil =>
          sent.err = Write(sent.out, sent.calls[1]).err)

\* the read of the body fails with a transport error
C8_Witness ==
  /\ pc = "decoded"
  /\ ~result.panic
  /\ result.hdrEnd > 0
  /\ result.err = ErrReset
  /\ result.reads[Len(result.reads)].err = ErrReset

\* C9: the Body of a message DecodeMessage returns is the bytes of the stream
\* that follow the padding, as many as the body-length field says, and the
\* reader is left at the first byte after them; with a body length of zero no
\* Read follows the padding.
C9_BodyExact ==
  (Decoded /\ result.message # Nil) =>
    \A m \in result.message :
      /\ m.Body = SubSeq(result.rd.data, result.bodyOff + 1,
                         result.bodyOff + Len(m.Body))
      /\ result.rd.off = result.bodyOff + Len(m.Body)

\* C10: IsValid returns nil exactly for the messages that satisfy the six
\* invariants.
C10_ValidIffInvariants ==
  Validated =>
    \A m \in message :
      valid = nil <=>
        /\ OrderKnown(m)
        /\ FlagsKnown(m)
        /\ TypeKnown(m)
        /\ HeadersKnown(m)
        /\ RequiredPresent(m)
        /\ SignaturePresent(m)

\* a message with a body, a Signature header and its required fields passes
C10_Witness ==
  /\ Validated
  /\ valid = nil
  /\ \E m \in message : m.Body # <<>> /\ m.Type = TypeMethodCall

\* the error values of IsValid, one for each kind of violation
ValidityErrors ==
  {InvalidMessageError("invalid byte order"), InvalidMessageError("invalid flags"),
   InvalidMessageError("invalid message type"), InvalidMessageError("invalid header"),
   InvalidMessageError("invalid type of header field"),
   InvalidMessageError("missing required header"),
   InvalidMessageError("missing signature")}

\* the header entries of m that violate an invariant, and the error of the
\* entry k: an unknown code, else a value of another type than the registry's
KnownCode(k) == k \in FieldPath..FieldUnixFds
BadEntries(m) ==
  {k \in DOMAIN m.Headers :
     ~KnownCode(k) \/ ~HeadersKnown([m EXCEPT !.Headers = (k :> m.Headers[k])])}
EntryError(m, k) ==
  IF ~KnownCode(k) THEN InvalidMessageError("invalid header")
  ELSE InvalidMessageError("invalid type of header field")

\* the errors of the earliest step of the validation that m fails (nil when
\* it fails none); the step of the header entries has the error of the entry
\* met first, which is any of the entries that fail
FirstFailures(m) ==
  IF ~OrderKnown(m) THEN {InvalidMessageError("invalid byte order")}
  ELSE IF ~FlagsKnown(m) THEN {InvalidMessageError("invalid flags")}
  ELSE IF ~TypeKnown(m) THEN {InvalidMessageError("invalid message type")}
  ELSE IF BadEntries(m) # {} THEN {EntryError(m, k) : k \in BadEntries(m)}
  ELSE IF ~RequiredPresent(m) THEN {InvalidMessageError("missing required header")}
  ELSE IF ~SignaturePresent(m) THEN {InvalidMessageError("missing signature")}
  ELSE {nil}

\* the number of invariants m violates
Violations(m) ==
  Cardinality({i \in 1..6 :
     \/ i = 1 /\ ~OrderKnown(m)
     \/ i = 2 /\ ~FlagsKnown(m)
     \/ i = 3 /\ ~TypeKnown(m)
     \/ i = 4 /\ BadEntries(m) # {}
     \/ i = 5 /\ ~RequiredPresent(m)
     \/ i = 6 /\ ~SignaturePresent(m)})

\* C11: first-failure ordering.  IsValid returns one error value, that of
\* the earliest step the message fails in the order byte order, flags,
\* message type, header entries (for an entry, unknown code before type
\* mismatch), required fields, signature; the seven kinds of violation have
\* seven different error values, none of them nil.
C11_FirstFailure ==
  /\ Cardinality(ValidityErrors) = 7 /\ nil \notin ValidityErrors
  /\ Validated =>
       \A m \in message :
         /\ valid \in FirstFailures(m)
         /\ valid \in ValidityErrors \cup {nil}
         /\ (~OrderKnown(m)) => valid = InvalidMessageError("invalid byte order")
         /\ (OrderKnown(m) /\ ~FlagsKnown(m))
              => valid = InvalidMessageError("invalid flags")

\* invalid flags and a missing required header: the flags are reported
C11_Witness ==
  /\ Validated
  /\ \E m \in message :
       /\ OrderKnown(m) /\ ~FlagsKnown(m) /\ TypeKnown(m) /\ BadEntries(m) = {}
       /\ ~RequiredPresent(m)
       /\ Violations(m) >= 2
  /\ valid = InvalidMessageError("invalid flags")

\* the message of the state passes IsValid
SentValid == \A m \in message : FirstFailures(m) = {nil}

\* C12: for a valid message the writer receives exactly one Write call, and
\* its argument is the whole message: the fixed part and header array, the
\* padding to a multiple of 8 and the Body.  What the writer accepted is a
\* prefix of that one argument.
C12_SingleWrite ==
  (Encoded /\ SentValid) =>
    \A m \in message :
      /\ Len(sent.calls) = 1
      /\ Len(sent.calls[1]) = sent.hdrEnd + PadLen(sent.hdrEnd, 8) + Len(m.Body)
      /\ SubSeq(sent.calls[1], Len(sent.calls[1]) - Len(m.Body) + 1,
                Len(sent.calls[1])) = m.Body
      /\ sent.calls[1][1] \in {MarkerLittle, MarkerBig}
      /\ sent.accepted = SubSeq(sent.calls[1], 1, Len(sent.accepted))

\* a message with a body handed to the writer in one call
C12_Witness ==
  /\ pc = "encoded"
  /\ sent.err = nil
  /\ \E m \in message : m.Body # <<>>
  /\ Len(sent.calls) = 1
  /\ Len(sent.calls[1]) > sent.hdrEnd + 1

\* the fixed part and header array of the buffer buf, read back field by
\* field in the byte order `order` from the byte after the marker
ReadBack(buf, order) ==
  DecodeMulti([rd |-> [WholeStream(buf, Len(buf)) EXCEPT !.off = 1],
               reads |-> <<>>, pos |-> 1, err |-> nil, bytes |-> <<>>], order)

\* C13: the buffer EncodeTo hands to the writer holds, in this order, the
\* marker of the message's Order, its Type, its Flags, the protocol version
\* 1, the number of bytes of Body and the Serial (both as the encoder wrote
\* them, little-endian), the header array with the entries of Headers, the
\* padding, and the bytes of Body and nothing after them.
C13_FieldOrder ==
  (Encoded /\ sent.calls # <<>>) =>
    \A m \in message :
      LET buf == sent.calls[1]
      IN With(ReadBack(buf, LittleEndian), LAMBDA back :
         /\ buf[1] = (IF m.Order = LittleEndian THEN 108 ELSE 66)
         /\ buf[2] = m.Type
         /\ buf[3] = m.Flags
         /\ buf[4] = 1
         /\ buf[5] + 256 * buf[6] + 65536 * buf[7] + 16777216 * buf[8] = Len(m.Body)
         /\ buf[9] + 256 * buf[10] + 65536 * buf[11] + 16777216 * buf[12] = m.Serial
         /\ back.d.err = nil
         /\ back.d.rd.off = sent.hdrEnd
         /\ HeaderMap(back.headers) = m.Headers
         /\ Len(back.headers) = Cardinality(DOMAIN m.Headers)
         /\ \A i \in (sent.hdrEnd + 1)..(Len(buf) - Len(m.Body)) : buf[i] = 0
         /\ Len(buf) = sent.hdrEnd + PadLen(sent.hdrEnd, 8) + Len(m.Body)
         /\ SubSeq(buf, Len(buf) - Len(m.Body) + 1, Len(buf)) = m.Body)

\* a message with a body and at least two headers
C13_Witness ==
  /\ pc = "encoded"
  /\ sent.calls # <<>>
  /\ \E m \in message :
       /\ Cardinality(DOMAIN m.Headers) >= 2
       /\ m.Body # <<>>
       /\ m.Type # m.Flags
       /\ sent.calls[1][5] = Len(m.Body)

\* the four bytes b[i+1..i+4] as a little-endian and as a big-endian number
LittleAt(b, i) == b[i + 1] + 256 * b[i + 2] + 65536 * b[i + 3] + 16777216 * b[i + 4]
BigAt(b, i) == b[i + 4] + 256 * b[i + 3] + 65536 * b[i + 2] + 16777216 * b[i + 1]

\* C14: in the buffer EncodeTo hands to the writer, the body length, the
\* serial and the byte count of the header array are little-endian, for a
\* message of either Order; a message DecodeMessage
\* returns has the Order the marker byte names ('l' little-endian, 'B'
\* big-endian) and the body length and serial that the bytes of the stream
\* give in that order.
C14_ByteOrders ==
  /\ (Encoded /\ sent.calls # <<>>) =>
       \A m \in message :
         LET buf == sent.calls[1]
         IN /\ LittleAt(buf, 4) = Len(m.Body)
            /\ LittleAt(buf, 8) = m.Serial
            /\ 16 + LittleAt(buf, 12) = sent.hdrEnd
  /\ (Decoded /\ result.message # Nil) =>
       \A d \in result.message :
         LET data == result.rd.data
         IN /\ data[1] = 108 => d.Order = LittleEndian
            /\ data[1] = 66 => d.Order = BigEndian
            /\ d.Order = LittleEndian =>
                 /\ Len(d.Body) = LittleAt(data, 4)
                 /\ d.Serial = LittleAt(data, 8)
                 /\ 16 + LittleAt(data, 12) = result.hdrEnd
            /\ d.Order = BigEndian =>
                 /\ Len(d.Body) = BigAt(data, 4)
                 /\ d.Serial = BigAt(data, 8)
                 /\ 16 + BigAt(data, 12) = result.hdrEnd

\* a big-endian message written with the marker 'B' and a little-endian
\* serial, then read back as the marker says
C14_Witness ==
  /\ pc = "looped"
  /\ \E m \in message : m.Order = BigEndian /\ m.Serial = 16909060
  /\ SubSeq(sent.calls[1], 1, 1) = <<66>>
  /\ SubSeq(sent.calls[1], 9, 12) = <<4, 3, 2, 1>>
  /\ FirstByte(66)
  /\ result.err # nil

\* the stream rd, rewound, with the protocol-version byte (the fourth)
\* replaced by v
WithVersion(rd, v) == [rd EXCEPT !.data[4] = v, !.off = 0]

\* what a call of DecodeMessage returned and did: the message and error,
\* the Read calls and the offset the stream is left at
Outcome(r) == [r EXCEPT !.rd = [off |-> @.off]]

\* the version bytes tried in place of the one the peer wrote (1 or 2)
VersionValues == {0, 255}

\* C15: the fourth byte of the buffer EncodeTo hands to the writer is 1; and
\* what DecodeMessage returns for a stream (message, error, Read calls) is
\* what it returns for the stream with any other protocol-version byte, so
\* no value of that byte is the cause of an error.
C15_VersionIgnored ==
  /\ (Encoded /\ sent.calls # <<>>) => sent.calls[1][4] = 1
  /\ Decoded =>
       \A v \in VersionValues :
         \E ks \in Orderings(DecodedKeys(WithVersion(result.rd, v))) :
           Outcome(DecodeMessage(WithVersion(result.rd, v), ks)) = Outcome(result)

\* a stream with the version byte 2 that decodes to a message
C15_Witness ==
  /\ pc = "decoded"
  /\ result.rd.data[4] = 2
  /\ result.err = nil
  /\ result.message # Nil

\* the map the entries hs of a header array give when they are entered one
\* after the other, a later entry overwriting an earlier one of its code
RECURSIVE Collapse(_)
Collapse(hs) ==
  IF hs = <<>> THEN <<>>
  ELSE LET h == hs[Len(hs)]
           rest == Collapse(SubSeq(hs, 1, Len(hs) - 1))
       IN [k \in DOMAIN rest \cup {h.HeaderField} |->
             IF k = h.HeaderField THEN h.Variant ELSE rest[k]]

\* some field code occurs twice in hs
Duplicates(hs) ==
  \E i, j \in DOMAIN hs : i < j /\ hs[i].HeaderField = hs[j].HeaderField

\* the order the marker of the decoded stream names, and the fixed part and
\* header array of the stream read back in that order
StreamOrder == MarkerOrder(result.rd.data[1])
StreamBack == ReadBack(result.rd.data, StreamOrder)

\* the decoded stream held a whole message whose bytes were all delivered
WholeMessageRead ==
  /\ Decoded /\ ~result.panic
  /\ KnownMarker(result.rd.data[1])
  /\ result.rd.limit = Len(result.rd.data)
  /\ StreamBack.d.err = nil

\* the message the header entries read back collapse to
CollapsedMessage(back) ==
  [Order |-> StreamOrder, Type |-> back.Type, Flags |-> back.Flags,
   Serial |-> back.Serial, Headers |-> Collapse(back.headers),
   Body |-> Zeros(back.length)]

\* C16: when DecodeMessage has read a whole message, the error it returns
\* is the validation result of the message whose Headers map holds, for each
\* field code of the header array, the value of the last entry with that
\* code; repeated codes are no error of their own, and a message returned
\* has exactly that map.
C16_DuplicateHeaders ==
  WholeMessageRead =>
    With(CollapsedMessage(StreamBack), LAMBDA m :
      /\ result.err \in FirstFailures(m)
      /\ result.err = nil => \A d \in result.message : d.Headers = m.Headers
      /\ (result.err = nil) = (result.message # Nil))

\* a header array whose first ReplySerial entry has a string value and whose
\* last has a uint32: the message is returned with the uint32
C16_Witness ==
  /\ pc = "decoded"
  /\ WholeMessageRead
  /\ Duplicates(StreamBack.headers)
  /\ StreamBack.headers[1].Variant.type = stringType
  /\ result.err = nil
  /\ \E d \in result.message : d.Headers[FieldReplySerial] = NumVariant(uint32Type, 7)

\* the positions of syslog that hold a call c
CallsOf(c) == {i \in DOMAIN syslog : syslog[i].call = c}

\* the error e is a db.Error named NoSuchUnit or LoadFailed
UnitMissing(e) ==
  /\ e.type = "db.Error"
  /\ e.Name \in {"org.freedesktop.systemd1.NoSuchUnit",
                  "org.freedesktop.systemd1.LoadFailed"}

\* StartAndEnableUnit has returned
Returned == upc = "done"

\* C17: StartAndEnableUnit calls StartUnit at most twice and Reload at most
\* once.  A second StartUnit follows only a first that returned NoSuchUnit
\* or LoadFailed, a successful os.Stat and a successful EnableUnitFiles, it
\* is the last call and its result is what is returned.  A failed os.Stat
\* returns ("", ErrNoSuchUnit) with no EnableUnitFiles; a failed
\* EnableUnitFiles returns ("", its error) with no second StartUnit; any
\* other first result is returned as it is after that one call.  Reload
\* follows a successful GetUnitProperties and precedes the second
\* StartUnit; after a failed GetUnitProperties or Reload the call goes on
\* to the second StartUnit.
C17_StartAndEnable ==
  /\ Cardinality(CallsOf("StartUnit")) <= 2
  /\ Cardinality(CallsOf("Reload")) <= 1
  /\ Cardinality(CallsOf("EnableUnitFiles")) <= 1
  /\ Cardinality(CallsOf("GetUnitProperties")) <= 1
  /\ Returned = (unitret # NotReturned)
  /\ syslog # <<>> => syslog[1].call = "StartUnit"
  /\ \A i \in CallsOf("StartUnit") : syslog[i].args = syslog[1].args
  /\ \A i \in CallsOf("StartUnit") :
       i > 1 =>
         /\ UnitMissing(syslog[1].err)
         /\ \E j \in CallsOf("Stat") : j < i /\ syslog[j].err = NilError
         /\ \E j \in CallsOf("EnableUnitFiles") : j < i /\ syslog[j].err = NilError
         /\ i = Len(syslog)
         /\ Returned
         /\ unitret = [status |-> syslog[i].status, err |-> syslog[i].err]
  /\ \A i \in CallsOf("Stat") :
       syslog[i].err # NilError =>
         /\ Returned
         /\ unitret = [status |-> "", err |-> DbError("org.freedesktop.systemd1.NoSuchUnit")]
         /\ CallsOf("EnableUnitFiles") = {}
         /\ i = Len(syslog)
  /\ \A i \in CallsOf("EnableUnitFiles") :
       syslog[i].err # NilError =>
         /\ Returned
         /\ unitret = [status |-> "", err |-> syslog[i].err]
         /\ CallsOf("StartUnit") = {1}
         /\ i = Len(syslog)
  /\ (syslog # <<>> /\ ~UnitMissing(syslog[1].err)) =>
       /\ Returned
       /\ Len(syslog) = 1
       /\ unitret = [status |-> syslog[1].status, err |-> syslog[1].err]
  /\ \A i \in CallsOf("Reload") :
       /\ i > 1
       /\ syslog[i - 1].call = "GetUnitProperties"
       /\ syslog[i - 1].err = NilError
       /\ CallsOf("StartUnit") \subseteq {1, i + 1}
  /\ \A i \in CallsOf("GetUnitProperties") \cup CallsOf("Reload") :
       Returned => /\ i < Len(syslog)
                   /\ syslog[Len(syslog)].call = "StartUnit"

\* the unit is unknown, its file exists and is enabled, the reload fails
\* and the second StartUnit succeeds
C17_Witness ==
  /\ Returned
  /\ Len(syslog) = 6
  /\ syslog[1].call = "StartUnit"
  /\ syslog[1].err = DbError("org.freedesktop.systemd1.NoSuchUnit")
  /\ syslog[5].call = "Reload" /\ syslog[5].err # NilError
  /\ syslog[6].call = "StartUnit" /\ syslog[6].args = syslog[1].args
  /\ syslog[6].status = "done" /\ syslog[6].err = NilError
  /\ unitret = [status |-> "done", err |-> NilError]

\* no call of StartSystemdConnection, Start or Require has run while
\* another goroutine's did: the calls made so far are a sequential series
Sequential ==
  /\ \A i \in DOMAIN starts : ~starts[i].overlap
  /\ \A g \in Goroutines : ~gs[g].overlap

\* C18: in a sequential series of calls of StartSystemdConnection
\* (directly, through Start or through Require), NewSystemdConnection is
\* called by the first call only, which is the only one made while
\* connection is nil; from its assignment on connection is the real
\* connection if that call returns nil and the stub if it returns the
\* connection error, and every later call returns nil and leaves connection
\* as it is.
C18_ConnectOnce ==
  Sequential =>
    /\ (connection = "nil") =
         (starts = <<>> /\ \A g \in Goroutines : gs[g].pc # "return")
    /\ Cardinality({g \in Goroutines : gs[g].pc # "idle"}) <= 1
    /\ \A g \in Goroutines : gs[g].pc # "idle" => starts = <<>>
    /\ \A g \in Goroutines :
         gs[g].pc = "return" =>
           connection = (IF gs[g].r.err = NilError THEN "conn" ELSE "stub")
    /\ \A i \in DOMAIN starts :
         /\ starts[i].attempted = (i = 1)
         /\ starts[i].connection = connection
         /\ i > 1 => starts[i].err = NilError
    /\ starts # <<>> =>
         /\ starts[1].err = NilError => connection = "conn"
         /\ starts[1].err # NilError =>
              /\ connection = "stub"
              /\ starts[1].err = ErrDial

\* the first call failed and installed the stub; two later calls returned
\* nil without a new attempt
C18_Witness ==
  /\ Sequential
  /\ Len(starts) = 3
  /\ starts[1].attempted /\ starts[1].err # NilError
  /\ connection = "stub"
  /\ \A i \in 2..3 : ~starts[i].attempted /\ starts[i].err = NilError
  /\ starts[2].fn = "StartSystemdConnection"

=============================================================================
